---- MODULE Spec2Model ----
(***************************************************************************)
(* MandelSound (src/2man.cpp): escape-time evaluator, row-strip parallel   *)
(* renderer, fast/precise redraw policy of the event loop, adaptive        *)
(* iteration budget.                                                       *)
(*                                                                         *)
(* Representation of the C++ doubles.                                      *)
(*  - Plane coordinates are fixed-point integers, SCALE units per 1.0.     *)
(*  - The viewport is kept as (centre, zoom exponent): every wheel event   *)
(*    multiplies the width and the height by 0.8 or by 1.25 = 1/0.8, so    *)
(*    the width is 3.5 * 0.8^zoomN and the height 3.0 * 0.8^zoomN.  The    *)
(*    four bounds xMin, xMax, yMin, yMax of the source are the derived     *)
(*    operators below.  The exponent is exact where fixed point is not:    *)
(*    the zoom ratio 3.5 / (xMax - xMin) = 1.25^zoomN is what              *)
(*    updateIterations reads.                                              *)
(***************************************************************************)
EXTENDS Integers, Naturals, Sequences, FiniteSets, TLC

\* ---------------------------------------------------------------- bounds
SCREEN_WIDTH == 2        \* raster columns (800 in the source, scaled down)
SCREEN_HEIGHT == 3       \* raster rows (600 in the source, scaled down)
MaxHardware == 3         \* largest value hardware_concurrency() reports
MaxWheel == 2            \* wheel events delivered in one run of Spec
MaxZoomIn == 153         \* deepest zoom exponent of SpecZoom
MaxZoomOut == 3177       \* widest zoom exponent (negative side)
MaxCoord == 10           \* SpecEval: inputs range over +-MaxCoord quarters
MaxIterEval == 5         \* SpecEval: largest iteration budget tried
MaxClicks == 2           \* left clicks delivered in one run of SpecClick
SAMPLE_RATE == 20        \* samples per second (44100 in the source, scaled down)
AUDIO_BUFFER_SIZE == 8   \* samples the device takes at a time (2048 in the source)

\* fixed-point units per 1.0 (a binary fixed-point format, 10 fraction bits)
SCALE == 2 ^ 10

\* ------------------------------------------------------ program constants
RENDER_DELAY == 50
INT_MAX == 2147483647
INT_MIN == (-INT_MAX) - 1
MIN_ITERATIONS == 100
CAP_ITERATIONS == 2000
FALLBACK_THREADS == 4

Rows == 0 .. (SCREEN_HEIGHT - 1)
Cols == 0 .. (SCREEN_WIDTH - 1)

\* ------------------------------------------------------------ arithmetic
\* product of two fixed-point numbers
Mul(a, b) == (a * b) \div SCALE

\* ESCAPE == 4.0
ESCAPE == 4 * SCALE

\* 2man.cpp:61-63  outMin + (outMax - outMin) * ((value - inMin) / (inMax - inMin))
\* value, inMin, inMax are integers (pixel indices); out* are fixed point.
mapValue(value, inMin, inMax, outMin, outMax) ==
    outMin + Mul(outMax - outMin, ((value - inMin) * SCALE) \div (inMax - inMin))

\* ------------------------------------------------- escape-time evaluator
\* faulty variant: the escape test x2 + y2 <= 4.0
LoopConditionInclusive(x2, y2, iteration, maxIter) ==
    x2 + y2 <= ESCAPE /\ iteration < maxIter
\* faulty variant: the cap reached one turn early
LoopConditionCapEarly(x2, y2, iteration, maxIter) ==
    x2 + y2 < ESCAPE /\ iteration + 1 < maxIter
\* 2man.cpp:49, the condition of the while loop
LoopCondition(x2, y2, iteration, maxIter) ==
    x2 + y2 < ESCAPE /\ iteration < maxIter

\* 2man.cpp:49-55: one turn of the while loop on s = <<x, y, x2, y2, iteration>>;
\* s itself once the condition fails
LoopTurn(s, real, imag, maxIter) ==
    IF LoopCondition(s[3], s[4], s[5], maxIter)
    THEN LET ny == Mul(2 * s[1], s[2]) + imag
             nx == s[3] - s[4] + real
         IN  <<nx, ny, Mul(nx, nx), Mul(ny, ny), s[5] + 1>>
    ELSE s

\* up to k turns of the loop, the turns split in halves and the state after
\* the first half bound as a value, so that the depth of the evaluation stays
\* logarithmic in k
RECURSIVE LoopTurns(_, _, _, _, _)
LoopTurns(s, k, real, imag, maxIter) ==
    IF k = 0 \/ ~LoopCondition(s[3], s[4], s[5], maxIter) THEN s
    ELSE IF k = 1 THEN LoopTurn(s, real, imag, maxIter)
    ELSE CHOOSE r \in { LoopTurns(half, k - (k \div 2), real, imag, maxIter) :
                            half \in {LoopTurns(s, k \div 2, real, imag, maxIter)} } : TRUE

\* 2man.cpp:49-57, the while loop and the return
MandelLoop(x, y, x2, y2, iteration, real, imag, maxIter) ==
    LoopTurns(<<x, y, x2, y2, iteration>>, maxIter - iteration, real, imag, maxIter)[5]

\* 2man.cpp:41-58
calculateMandelbrot(real, imag, maxIter) ==
    MandelLoop(0, 0, 0, 0, 0, real, imag, maxIter)

\* ------------------------------------------------------------ tile colour
\* 2man.cpp:124-152: black inside, otherwise HSV (hue = (it % 64) / 64,
\* saturation 0.8) to RGB by sector; the Uint8 casts truncate.  Exact
\* arithmetic: f = fr / 64 with fr = (6 * (it % 64)) % 64.
PixelColor(iterations, maxIterations) ==
    IF iterations = maxIterations
    THEN <<0, 0, 0, 255>>
    ELSE LET m     == iterations % 64
             i     == (6 * m) \div 64
             fr    == (6 * m) % 64
             value == IF iterations < maxIterations THEN 1 ELSE 0
             v255  == value * 255
             p255  == value * 51
             q255  == (value * 255 * (320 - 4 * fr)) \div 320
             t255  == (value * 255 * (64 + 4 * fr)) \div 320
             s     == i % 6
         IN  CASE s = 0 -> <<v255, t255, p255, 255>>
               [] s = 1 -> <<q255, v255, p255, 255>>
               [] s = 2 -> <<p255, v255, t255, 255>>
               [] s = 3 -> <<p255, q255, v255, 255>>
               [] s = 4 -> <<t255, p255, v255, 255>>
               [] s = 5 -> <<v255, p255, q255, 255>>

\* ---------------------------------------------------------------- viewport
\* 2man.cpp:24-27: xMin = -2.5, xMax = 1.0, yMin = -1.5, yMax = 1.5
INITIAL_WIDTH == (35 * SCALE) \div 10
INITIAL_HEIGHT == 3 * SCALE
INITIAL_VIEW == [n |-> 0, cx |-> -((3 * SCALE) \div 4), cy |-> 0, zero |-> FALSE,
                 nan |-> FALSE]
\* 2man.cpp:30-33: prev_xMin = prev_xMax = prev_yMin = prev_yMax = 0.0, the
\* bounds of width 0 that no zoom exponent denotes
ZERO_BOUNDS == [n |-> 0, cx |-> 0, cy |-> 0, zero |-> TRUE, nan |-> FALSE]

\* The fixed-point format holds ranges from NEAR to FAR.  The bounds are
\* centre -/+ range / 2 rounded to nearest (2man.cpp:327-330), which keeps them
\* one unit of the last place each side of the centre however small the
\* range: NEAR is two units.  A range of FAR or more is kept at FAR and a
\* centre coordinate beyond -/+ FAR at -/+ FAR: what the renderer and the
\* evaluator make of such a viewport depends only on which of its points are
\* outside radius 2.
NEAR == 2
FAR == 16 * SCALE

\* range * 0.8^n (n >= 0) or range * 1.25^(-n) (n < 0) in fixed point, one
\* factor at a time (2man.cpp:321-325, (xMax - xMin) * zoomFactor)
Clip(range) == IF range < NEAR THEN NEAR ELSE IF range > FAR THEN FAR ELSE range
ClipCentre(c) == IF c < -FAR THEN -FAR ELSE IF c > FAR THEN FAR ELSE c

\* (the factors are applied in two halves so that the depth of the
\* evaluation stays logarithmic in n)
RECURSIVE RangeAt(_, _)
RangeAt(range, n) ==
    IF n = 0 THEN range
    ELSE IF range = NEAR /\ n > 0 THEN NEAR
    ELSE IF range = FAR /\ n < 0 THEN FAR
    ELSE IF n = 1 THEN Clip((range * 4) \div 5)
    ELSE IF n = -1 THEN Clip((range * 5) \div 4)
    ELSE IF n > 0
         THEN CHOOSE r \in { RangeAt(half, n - (n \div 2)) :
                                 half \in {RangeAt(range, n \div 2)} } : TRUE
    ELSE CHOOSE r \in { RangeAt(half, n + ((-n) \div 2)) :
                            half \in {RangeAt(range, -((-n) \div 2))} } : TRUE

\* 3.5 * 1.25^3175 < DBL_MAX < 3.0 * 1.25^3176: after OVERFLOW_ZOOM wheel-down
\* events newWidth and newHeight (2man.cpp:324-325) are +inf, the bounds
\* -inf and +inf
OVERFLOW_ZOOM == 3176
InfiniteBounds(v) == ~v.zero /\ v.n <= -OVERFLOW_ZOOM
\* mapValue on bounds -inf, +inf or NaN yields NaN (2man.cpp:62)
NonFinite(v) == v.nan \/ InfiniteBounds(v)

WidthOf(v) == IF v.zero THEN 0 ELSE RangeAt(INITIAL_WIDTH, v.n)
HeightOf(v) == IF v.zero THEN 0 ELSE RangeAt(INITIAL_HEIGHT, v.n)
\* 2man.cpp:327-330: centre -/+ newWidth / 2
xMinOf(v) == v.cx - (WidthOf(v) \div 2)
xMaxOf(v) == v.cx + (WidthOf(v) \div 2)
yMinOf(v) == v.cy - (HeightOf(v) \div 2)
yMaxOf(v) == v.cy + (HeightOf(v) \div 2)

\* ------------------------------------------------- iteration controller
\* The double 100 * sqrt(initialRange / currentRange) = 100 * 1.25^(n/2) as
\* <<integer part, fraction in 1/10000>>; <<-1, 0>> once it is beyond int.
OUT_OF_INT == <<-1, 0>>

TimesFiveQuarters(v) ==
    IF v = OUT_OF_INT THEN v
    ELSE LET q == v[1] \div 4
             r == ((v[1] % 4) * 10000 + v[2]) \div 4
             s == v[2] + r
             c == s \div 10000
         IN  IF v[1] > INT_MAX - q - c THEN OUT_OF_INT
             ELSE <<v[1] + q + c, s % 10000>>

TimesFourFifths(v) ==
    LET t == ((v[1] * 10000 + v[2]) * 4) \div 5
    IN  <<t \div 10000, t % 10000>>

\* v * 1.25^k (k >= 0) or v * 0.8^(-k) (k < 0)
RECURSIVE TimesZoom(_, _)
TimesZoom(v, k) ==
    IF k = 0 \/ v = OUT_OF_INT \/ v = <<0, 0>> THEN v
    ELSE IF k = 1 THEN TimesFiveQuarters(v)
    ELSE IF k = -1 THEN TimesFourFifths(v)
    ELSE IF k > 0
         THEN CHOOSE r \in { TimesZoom(half, k - (k \div 2)) :
                                 half \in {TimesZoom(v, k \div 2)} } : TRUE
    ELSE CHOOSE r \in { TimesZoom(half, k + ((-k) \div 2)) :
                            half \in {TimesZoom(v, -((-k) \div 2))} } : TRUE

\* 2man.cpp:219-224: 100 * sqrt(zoomLevel), zoomLevel = 3.5 / (xMax - xMin)
\* = 1.25^n; 100 * sqrt(1.25) = 111.8033..
HundredSqrtZoom(n) ==
    IF n % 2 = 0 THEN TimesZoom(<<100, 0>>, n \div 2)
    ELSE TimesZoom(<<111, 8033>>, (n - 1) \div 2)

\* 2man.cpp:224 static_cast<int>(double): truncation; undefined when the
\* value is beyond int (x86 cvttsd2si yields INT_MIN, AArch64 fcvtzs INT_MAX)
CastToInt(v) == IF v = OUT_OF_INT THEN {INT_MIN, INT_MAX} ELSE {v[1]}

\* 2man.cpp:225-226
ClampIterations(raw) ==
    LET low == IF raw < MIN_ITERATIONS THEN MIN_ITERATIONS ELSE raw
    IN  IF low > CAP_ITERATIONS THEN CAP_ITERATIONS ELSE low

\* 2man.cpp:217-227: the values MAX_ITERATIONS may take for viewport v; with
\* NaN bounds the double that is cast is NaN
updateIterations(v) ==
    { ClampIterations(raw) :
        raw \in CastToInt(IF v.nan THEN OUT_OF_INT ELSE HundredSqrtZoom(v.n)) }

\* ------------------------------------------------------------------ state
VARIABLES
    view,                   \* xMin, xMax, yMin, yMax            (2man.cpp:24-27)
    prev,                   \* prev_xMin .. prev_yMax            (2man.cpp:30-33)
    MAX_ITERATIONS,         \*                                   (2man.cpp:13)
    NUM_THREADS,            \*                                   (2man.cpp:16)
    needsUpdate,            \*                                   (2man.cpp:36)
    isHighQuality,          \*                                   (2man.cpp:37)
    isRenderingHighQuality, \*                                   (2man.cpp:38)
    pc,                     \* position of the main thread
    caller,                 \* call site renderMandelbrot returns to
    highQuality,            \* parameter of renderMandelbrot     (2man.cpp:157)
    localMaxIterations,     \*                                   (2man.cpp:175)
    threads,                \* the std::thread vector            (2man.cpp:178)
    spawnI,                 \* i of the spawn loop               (2man.cpp:182)
    joinI,                  \* position of the join loop         (2man.cpp:194)
    pixels,                 \* the raster being filled           (2man.cpp:158)
    presented,              \* raster last given to SDL          (2man.cpp:199-204)
    quit,                   \*                                   (2man.cpp:280)
    elapsed,                \* SDL_GetTicks() - lastRenderTime   (2man.cpp:282,341,346)
    wheelsLeft,             \* wheel events the user still sends
    preciseRenders,         \* precise passes since the last wheel event
    evReal, evImag, evMaxIter, evResult,  \* one call of calculateMandelbrot
    hardwareConcurrency,    \* std::thread::hardware_concurrency() (2man.cpp:16)
    exitStatus,             \* value main returned, -1 while it runs
    texture,                \* SDL_CreateTexture result         (2man.cpp:273)
    audioQueue,             \* samples queued on the device     (2man.cpp:304-305)
    audioPaused,            \* device paused                    (2man.cpp:306)
    clickCount,             \* left clicks handled so far
    tone,                   \* arguments and frequency of the last tone (2man.cpp:296-303)
    synth                   \* one call of createMandelbrotSound, sample by sample

flags == <<needsUpdate, isHighQuality, isRenderingHighQuality>>
renderVars == <<highQuality, localMaxIterations, threads, spawnI, joinI, pixels>>
evalVars == <<evReal, evImag, evMaxIter, evResult>>
bootVars == <<hardwareConcurrency, exitStatus, texture>>
audioVars == <<audioQueue, audioPaused, clickCount, tone>>
vars == <<view, prev, MAX_ITERATIONS, NUM_THREADS, flags, pc, caller, renderVars,
          presented, quit, elapsed, wheelsLeft, preciseRenders, evalVars,
          bootVars, audioVars, synth>>

\* a row no worker has written: new Uint32[] leaves it indeterminate
UNWRITTEN == [x \in Cols |-> <<-1, -1, -1, -1>>]
BlankRaster == [y \in Rows |-> UNWRITTEN]

\* faulty variant of the worker count
NumThreadsAtLeastFour(hc) == IF hc > FALLBACK_THREADS THEN hc ELSE FALLBACK_THREADS
\* 2man.cpp:16
NumThreadsFor(hc) == IF hc > 0 THEN hc ELSE FALLBACK_THREADS

\* elapsed time saturates just above RENDER_DELAY, the only value it is
\* compared with (2man.cpp:348)
TickSteps == {0, RENDER_DELAY \div 2, RENDER_DELAY \div 2 + 1}
Later(e, d) == IF e + d > RENDER_DELAY THEN RENDER_DELAY + 1 ELSE e + d

\* cursor positions tried: the top-left pixel and the centre pixel
MousePositions == {<<0, 0>>, <<SCREEN_WIDTH \div 2, SCREEN_HEIGHT \div 2>>}

\* the globals as initialised (2man.cpp:24-38) and the locals of main
InitGlobals ==
    /\ view = INITIAL_VIEW
    /\ prev = ZERO_BOUNDS
    /\ MAX_ITERATIONS = MIN_ITERATIONS
    /\ needsUpdate = TRUE
    /\ isHighQuality = FALSE
    /\ isRenderingHighQuality = FALSE
    /\ caller = "none"
    /\ highQuality = FALSE
    /\ localMaxIterations = 0
    /\ threads = <<>>
    /\ spawnI = 0
    /\ joinI = 0
    /\ pixels = BlankRaster
    /\ presented = BlankRaster
    /\ quit = FALSE
    /\ elapsed = 0
    /\ preciseRenders = 0

\* state at 2man.cpp:277, before the first renderMandelbrot call
InitProgram ==
    /\ InitGlobals
    /\ pc = "start"

NoEval ==
    /\ evReal = 0
    /\ evImag = 0
    /\ evMaxIter = 0
    /\ evResult = -1

\* main has passed the initialisation of 2man.cpp:230-274
Booted ==
    /\ exitStatus = -1
    /\ texture = "ok"

NO_TONE == [click |-> 0, iterations |-> 0, budget |-> 0, real |-> 0, imag |-> 0,
            finite |-> TRUE, primaryFreq |-> 0, sampleCount |-> 0, dropped |-> 0]

\* SDL_OpenAudioDevice leaves the device paused with an empty queue
NoAudio ==
    /\ audioQueue = <<>>
    /\ audioPaused = TRUE
    /\ clickCount = 0
    /\ tone = NO_TONE

NO_SYNTH == [iterations |-> 0, finite |-> TRUE, i |-> 0, envelope |-> 0, sum |-> 0,
             sumNaN |-> FALSE, sample |-> 0]

NoSynth == synth = NO_SYNTH

Init ==
    /\ InitProgram
    /\ NoEval
    /\ Booted
    /\ NoAudio
    /\ NoSynth
    /\ hardwareConcurrency \in 0 .. MaxHardware
    /\ NUM_THREADS = NumThreadsFor(hardwareConcurrency)
    /\ wheelsLeft = MaxWheel

\* ------------------------------------------------------------ tile renderer
\* 2man.cpp:41-58 on a NaN: the first turn runs (0 + 0 < 4), then x2 is NaN and
\* the loop test is false
calculateMandelbrotNaN(maxIter) == IF 0 < maxIter THEN 1 ELSE 0

\* 2man.cpp:120-122, 296-299: the count of the point pixel (x, y) maps to
PixelIterations(x, y, v, maxIterations) ==
    IF NonFinite(v)
    THEN calculateMandelbrotNaN(maxIterations)
    ELSE calculateMandelbrot(mapValue(x, 0, SCREEN_WIDTH, xMinOf(v), xMaxOf(v)),
                             mapValue(y, 0, SCREEN_HEIGHT, yMinOf(v), yMaxOf(v)),
                             maxIterations)

\* 2man.cpp:118-153: one row of renderMandelbrotSection
RowColors(y, v, maxIterations) ==
    [x \in Cols |-> PixelColor(PixelIterations(x, y, v, maxIterations), maxIterations)]

\* 2man.cpp:115-155: renderMandelbrotSection on rows [startY, endY)
RECURSIVE renderMandelbrotSection(_, _, _, _, _)
renderMandelbrotSection(px, startY, endY, v, maxIterations) ==
    IF startY < endY
    THEN renderMandelbrotSection([px EXCEPT ![startY] = RowColors(startY, v, maxIterations)],
                                 startY + 1, endY, v, maxIterations)
    ELSE px

\* ------------------------------------------------------------ orchestrator
\* 2man.cpp:179
SectionHeight(n) == SCREEN_HEIGHT \div n
\* faulty variant: strips counted from row 1
StripStartFromOne(i, n) == i * SectionHeight(n) + 1
\* 2man.cpp:183
StripStart(i, n) == i * SectionHeight(n)
\* faulty variant: the last strip does not absorb the remainder rows
StripEndNoRemainder(i, n) == StripStart(i, n) + SectionHeight(n)
\* 2man.cpp:184
StripEnd(i, n) ==
    IF i = n - 1 THEN SCREEN_HEIGHT ELSE StripStart(i, n) + SectionHeight(n)

\* 2man.cpp:162-163: the four == of the guard; a NaN equals nothing
BoundsEqual(p, v) == ~p.nan /\ ~v.nan /\ p = v

\* faulty variant: the negation of needsUpdate dropped
SkipGuardNoNegation ==
    highQuality /\ needsUpdate /\ BoundsEqual(prev, view)
\* 2man.cpp:161-163
SkipGuard ==
    highQuality /\ ~needsUpdate /\ BoundsEqual(prev, view)

\* faulty variant: every pass uses a quarter of the budget
LocalBudgetAlwaysQuarter(hq, maxIter) == maxIter \div 4
\* faulty variant: the fast pass uses half the budget
LocalBudgetHalf(hq, maxIter) == IF hq THEN maxIter ELSE maxIter \div 2
\* 2man.cpp:175
LocalBudget(hq, maxIter) == IF hq THEN maxIter ELSE maxIter \div 4

Call(hq, site) ==
    /\ highQuality' = hq
    /\ caller' = site
    /\ pc' = "guard"

\* 2man.cpp:277
StartRender ==
    /\ pc = "start"
    /\ Call(FALSE, "init")
    /\ UNCHANGED <<view, prev, MAX_ITERATIONS, NUM_THREADS, flags, localMaxIterations,
                   threads, spawnI, joinI, pixels, presented, quit, elapsed,
                   wheelsLeft, preciseRenders, evalVars,
                   bootVars, audioVars, synth>>

\* 2man.cpp:158-179: allocation, skip guard, store of the bounds, budget
RenderEnter ==
    /\ pc = "guard"
    /\ IF SkipGuard
       THEN /\ pc' = "ret"
            /\ UNCHANGED <<prev, localMaxIterations, threads, spawnI, joinI, pixels,
                           preciseRenders>>
       ELSE /\ prev' = view
            /\ localMaxIterations' = LocalBudget(highQuality, MAX_ITERATIONS)
            /\ threads' = <<>>
            /\ spawnI' = 0
            /\ joinI' = 0
            /\ pixels' = BlankRaster
            /\ preciseRenders' = IF highQuality /\ preciseRenders < 2
                                 THEN preciseRenders + 1 ELSE preciseRenders
            /\ pc' = "spawn"
    /\ UNCHANGED <<view, MAX_ITERATIONS, NUM_THREADS, flags, caller, highQuality,
                   presented, quit, elapsed, wheelsLeft, evalVars,
                   bootVars, audioVars, synth>>

\* 2man.cpp:182-191: one turn of the spawn loop
SpawnThread ==
    /\ pc = "spawn"
    /\ threads' = Append(threads,
                    [status |-> "running",
                     startY |-> StripStart(spawnI, NUM_THREADS),
                     endY |-> StripEnd(spawnI, NUM_THREADS),
                     y |-> StripStart(spawnI, NUM_THREADS),
                     view |-> view,
                     maxIterations |-> localMaxIterations])
    /\ spawnI' = spawnI + 1
    /\ pc' = IF spawnI + 1 < NUM_THREADS THEN "spawn" ELSE "join"
    /\ UNCHANGED <<view, prev, MAX_ITERATIONS, NUM_THREADS, flags, caller, highQuality,
                   localMaxIterations, joinI, pixels, presented, quit, elapsed,
                   wheelsLeft, preciseRenders, evalVars,
                   bootVars, audioVars, synth>>

\* 2man.cpp:117-154: worker k fills its next row, or leaves its loop and ends
WorkerStep(k) ==
    /\ threads[k].status = "running"
    /\ LET t == threads[k]
       IN  IF t.y < t.endY
           THEN /\ pixels' = [pixels EXCEPT ![t.y] = RowColors(t.y, t.view, t.maxIterations)]
                /\ threads' = [threads EXCEPT ![k].y = t.y + 1]
           ELSE /\ threads' = [threads EXCEPT ![k].status = "done"]
                /\ UNCHANGED pixels
    /\ UNCHANGED <<view, prev, MAX_ITERATIONS, NUM_THREADS, flags, pc, caller, highQuality,
                   localMaxIterations, spawnI, joinI, presented, quit, elapsed,
                   wheelsLeft, preciseRenders, evalVars,
                   bootVars, audioVars, synth>>

Worker == \E k \in 1 .. Len(threads) : WorkerStep(k)

\* faulty variant: join does not wait for the thread to end
JoinReadyNoWait(k) == TRUE
\* 2man.cpp:195: thread.join() returns once the thread has ended
JoinReady(k) == threads[k].status = "done"

\* 2man.cpp:194-196: one turn of the join loop
JoinThread ==
    /\ pc = "join"
    /\ JoinReady(joinI + 1)
    /\ joinI' = joinI + 1
    /\ pc' = IF joinI + 1 < Len(threads) THEN "join" ELSE "present"
    /\ UNCHANGED <<view, prev, MAX_ITERATIONS, NUM_THREADS, flags, caller, highQuality,
                   localMaxIterations, threads, spawnI, pixels, presented, quit,
                   elapsed, wheelsLeft, preciseRenders, evalVars,
                   bootVars, audioVars, synth>>

\* faulty variant: only the pass in flight is cleared
MarkUpdatedOnlyInFlight == <<needsUpdate, isHighQuality, FALSE>>
\* faulty variant: the pass in flight is not cleared
MarkUpdatedKeepInFlight == <<FALSE, TRUE, isRenderingHighQuality>>
\* 2man.cpp:209-213
MarkUpdated == <<FALSE, TRUE, FALSE>>

\* 2man.cpp:198-213: present the raster, mark as updated; SDL_UpdateTexture
\* and SDL_RenderCopy on a null texture fail and show nothing
FinishRender ==
    /\ pc = "present"
    /\ presented' = IF texture = "ok" THEN pixels ELSE presented
    /\ LET marked == IF highQuality THEN MarkUpdated ELSE flags
       IN  /\ needsUpdate' = marked[1]
           /\ isHighQuality' = marked[2]
           /\ isRenderingHighQuality' = marked[3]
    /\ pc' = "ret"
    /\ UNCHANGED <<view, prev, MAX_ITERATIONS, NUM_THREADS, caller, renderVars, quit,
                   elapsed, wheelsLeft, preciseRenders, evalVars,
                   bootVars, audioVars, synth>>

\* 2man.cpp:277-282: back from the initial render
ReturnToStart ==
    /\ pc = "ret" /\ caller = "init"
    /\ pc' = "poll"
    /\ UNCHANGED <<view, prev, MAX_ITERATIONS, NUM_THREADS, flags, caller, renderVars,
                   presented, quit, elapsed, wheelsLeft, preciseRenders, evalVars,
                   bootVars, audioVars, synth>>

\* 2man.cpp:340-341: back in the wheel handler, lastRenderTime = SDL_GetTicks()
ReturnToWheel ==
    /\ pc = "ret" /\ caller = "wheel"
    /\ elapsed' = 0
    /\ pc' = "poll"
    /\ UNCHANGED <<view, prev, MAX_ITERATIONS, NUM_THREADS, flags, caller, renderVars,
                   presented, quit, wheelsLeft, preciseRenders, evalVars,
                   bootVars, audioVars, synth>>

\* 2man.cpp:350-354: back in the main loop after the precise render
ReturnToLoop ==
    /\ pc = "ret" /\ caller = "precise"
    /\ pc' = "delay"
    /\ UNCHANGED <<view, prev, MAX_ITERATIONS, NUM_THREADS, flags, caller, renderVars,
                   presented, quit, elapsed, wheelsLeft, preciseRenders, evalVars,
                   bootVars, audioVars, synth>>

Render == RenderEnter \/ SpawnThread \/ Worker \/ JoinThread \/ FinishRender

\* --------------------------------------------------------------- event loop
\* 2man.cpp:321 zoomFactor 0.8 (one more factor 0.8) or 1.25 (one fewer)
ZoomStep(wheelY) == IF wheelY > 0 THEN 1 ELSE -1

\* 2man.cpp:312-340: the SDL_MOUSEWHEEL handler up to the render call
WheelHandler(wheelY, mouseX, mouseY) ==
    /\ pc = "poll"
    /\ LET centerReal == ClipCentre(mapValue(mouseX, 0, SCREEN_WIDTH,
                                             xMinOf(view), xMaxOf(view)))
           centerImag == ClipCentre(mapValue(mouseY, 0, SCREEN_HEIGHT,
                                             yMinOf(view), yMaxOf(view)))
           zoomed == [n |-> view.n + ZoomStep(wheelY), cx |-> centerReal,
                      cy |-> centerImag, zero |-> FALSE, nan |-> NonFinite(view)]
       IN  /\ zoomed.n \in (-MaxZoomOut) .. MaxZoomIn
           /\ view' = zoomed
           /\ MAX_ITERATIONS' \in updateIterations(zoomed)
    /\ needsUpdate' = TRUE
    /\ isHighQuality' = FALSE
    /\ preciseRenders' = 0
    /\ Call(FALSE, "wheel")
    /\ UNCHANGED <<prev, NUM_THREADS, isRenderingHighQuality, localMaxIterations,
                   threads, spawnI, joinI, pixels, presented, quit, elapsed, evalVars,
                   bootVars, audioVars, synth>>

\* a wheel event of the user, at one of the cursor positions
WheelEvent ==
    /\ wheelsLeft > 0
    /\ wheelsLeft' = wheelsLeft - 1
    /\ \E wheelY \in {-1, 1}, m \in MousePositions : WheelHandler(wheelY, m[1], m[2])

\* the user keeps scrolling up with the cursor on the centre pixel
ScrollUpEvent ==
    /\ UNCHANGED wheelsLeft
    /\ WheelHandler(1, SCREEN_WIDTH \div 2, SCREEN_HEIGHT \div 2)

\* the user keeps scrolling down with the cursor on the centre pixel
ScrollDownEvent ==
    /\ UNCHANGED wheelsLeft
    /\ WheelHandler(-1, SCREEN_WIDTH \div 2, SCREEN_HEIGHT \div 2)

\* 2man.cpp:288-290
QuitEvent ==
    /\ pc = "poll"
    /\ ~quit
    /\ quit' = TRUE
    /\ UNCHANGED <<view, prev, MAX_ITERATIONS, NUM_THREADS, flags, pc, caller, renderVars,
                   presented, elapsed, wheelsLeft, preciseRenders, evalVars,
                   bootVars, audioVars, synth>>

\* 2man.cpp:287: SDL_PollEvent returns 0
NoEvent ==
    /\ pc = "poll"
    /\ pc' = "check"
    /\ UNCHANGED <<view, prev, MAX_ITERATIONS, NUM_THREADS, flags, caller, renderVars,
                   presented, quit, elapsed, wheelsLeft, preciseRenders, evalVars,
                   bootVars, audioVars, synth>>

\* faulty variant: the test of isHighQuality not negated
PreciseDueWhenPrecise(e) ==
    needsUpdate /\ isHighQuality /\ ~isRenderingHighQuality /\ e > RENDER_DELAY
\* faulty variant: no settle delay
PreciseDueNoDebounce(e) ==
    needsUpdate /\ ~isHighQuality /\ ~isRenderingHighQuality
\* 2man.cpp:347-348
PreciseDue(e) ==
    needsUpdate /\ ~isHighQuality /\ ~isRenderingHighQuality /\ e > RENDER_DELAY

\* 2man.cpp:346-351: d ticks after the previous reading of the clock
CheckPrecise ==
    /\ pc = "check"
    /\ \E d \in TickSteps :
          /\ elapsed' = Later(elapsed, d)
          /\ IF PreciseDue(Later(elapsed, d))
             THEN /\ isRenderingHighQuality' = TRUE
                  /\ Call(TRUE, "precise")
             ELSE /\ pc' = "delay"
                  /\ UNCHANGED <<isRenderingHighQuality, caller, highQuality>>
    /\ UNCHANGED <<view, prev, MAX_ITERATIONS, NUM_THREADS, needsUpdate, isHighQuality,
                   localMaxIterations, threads, spawnI, joinI, pixels, presented, quit,
                   wheelsLeft, preciseRenders, evalVars,
                   bootVars, audioVars, synth>>

\* 2man.cpp:354, 285: SDL_Delay(1), then the loop test
Delay ==
    /\ pc = "delay"
    /\ pc' = IF quit THEN "exit" ELSE "poll"
    /\ UNCHANGED <<view, prev, MAX_ITERATIONS, NUM_THREADS, flags, caller, renderVars,
                   presented, quit, elapsed, wheelsLeft, preciseRenders, evalVars,
                   bootVars, audioVars, synth>>

Returns == ReturnToStart \/ ReturnToWheel \/ ReturnToLoop

Next ==
    \/ StartRender
    \/ Render
    \/ Returns
    \/ WheelEvent
    \/ QuitEvent
    \/ NoEvent
    \/ CheckPrecise
    \/ Delay

\* the program with any reported hardware concurrency, MaxWheel wheel events
Spec == Init /\ [][Next]_vars

\* SDL_Delay(1) (2man.cpp:354) lets at least a tick pass in every turn of the
\* main loop: over and over the reading of SDL_GetTicks (346) is a later one
ClockAdvances == SF_vars(CheckPrecise /\ elapsed' # elapsed)

\* the main thread runs (2man.cpp:277-355), every spawned worker is
\* scheduled (186-191), and SDL_PollEvent reports an empty queue once the
\* events have been handled (287)
ProgramRuns ==
    /\ WF_vars(StartRender)
    /\ WF_vars(RenderEnter)
    /\ WF_vars(SpawnThread)
    /\ WF_vars(Worker)
    /\ WF_vars(JoinThread)
    /\ WF_vars(FinishRender)
    /\ WF_vars(Returns)
    /\ WF_vars(NoEvent)
    /\ WF_vars(CheckPrecise)
    /\ WF_vars(Delay)

\* the program on one or two workers, one wheel event to come
InitLive ==
    /\ InitProgram
    /\ NoEval
    /\ Booted
    /\ NoAudio
    /\ NoSynth
    /\ hardwareConcurrency \in {1, 2}
    /\ NUM_THREADS = NumThreadsFor(hardwareConcurrency)
    /\ wheelsLeft = 1

\* the running program
SpecLive == InitLive /\ [][Next]_vars /\ ProgramRuns /\ ClockAdvances

\* ------------------------------------------------- deep zoom (one thread)
InitZoom ==
    /\ InitProgram
    /\ NoEval
    /\ Booted
    /\ NoAudio
    /\ NoSynth
    /\ hardwareConcurrency = 1
    /\ NUM_THREADS = NumThreadsFor(hardwareConcurrency)
    /\ wheelsLeft = 0

NextZoom ==
    \/ StartRender
    \/ Render
    \/ Returns
    \/ ScrollUpEvent
    \/ NoEvent
    \/ CheckPrecise
    \/ Delay

SpecZoom == InitZoom /\ [][NextZoom]_vars

\* ------------------------------------------------ zooming out (one thread)
NextZoomOut ==
    \/ StartRender
    \/ Render
    \/ Returns
    \/ ScrollDownEvent
    \/ NoEvent
    \/ CheckPrecise
    \/ Delay

SpecZoomOut == InitZoom /\ [][NextZoomOut]_vars

\* ------------------------- renderMandelbrot called in any state of the flags
CallViews == {INITIAL_VIEW, [INITIAL_VIEW EXCEPT !.n = 1]}

InitCall ==
    /\ NoEval
    /\ Booted
    /\ NoAudio
    /\ NoSynth
    /\ view \in CallViews
    /\ prev \in CallViews \cup {ZERO_BOUNDS}
    /\ MAX_ITERATIONS \in updateIterations(view)
    /\ needsUpdate \in BOOLEAN
    /\ isHighQuality \in BOOLEAN
    /\ isRenderingHighQuality \in BOOLEAN
    /\ hardwareConcurrency \in 0 .. MaxHardware
    /\ NUM_THREADS = NumThreadsFor(hardwareConcurrency)
    /\ highQuality \in BOOLEAN
    /\ pc = "guard"
    /\ caller = "call"
    /\ localMaxIterations = 0
    /\ threads = <<>>
    /\ spawnI = 0
    /\ joinI = 0
    /\ pixels = BlankRaster
    /\ presented = BlankRaster
    /\ quit = FALSE
    /\ elapsed = 0
    /\ wheelsLeft = 0
    /\ preciseRenders = 0

ReturnToCall ==
    /\ pc = "ret" /\ caller = "call"
    /\ pc' = "returned"
    /\ UNCHANGED <<view, prev, MAX_ITERATIONS, NUM_THREADS, flags, caller, renderVars,
                   presented, quit, elapsed, wheelsLeft, preciseRenders, evalVars,
                   bootVars, audioVars, synth>>

NextCall == Render \/ ReturnToCall

SpecCall == InitCall /\ [][NextCall]_vars

\* ------------------------------------ calculateMandelbrot on a grid of points
EvalGrid == { k * (SCALE \div 4) : k \in (-MaxCoord) .. MaxCoord }

\* budgets tried: the small ones, and those of the first fast and precise
\* passes (2man.cpp:13, 175)
EvalBudgets == (1 .. MaxIterEval) \cup {MIN_ITERATIONS \div 4, MIN_ITERATIONS}

InitEval ==
    /\ Booted
    /\ NoAudio
    /\ NoSynth
    /\ view = INITIAL_VIEW
    /\ prev = ZERO_BOUNDS
    /\ MAX_ITERATIONS = MIN_ITERATIONS
    /\ hardwareConcurrency = 0
    /\ NUM_THREADS = NumThreadsFor(hardwareConcurrency)
    /\ needsUpdate = TRUE
    /\ isHighQuality = FALSE
    /\ isRenderingHighQuality = FALSE
    /\ pc = "eval"
    /\ caller = "none"
    /\ highQuality = FALSE
    /\ localMaxIterations = 0
    /\ threads = <<>>
    /\ spawnI = 0
    /\ joinI = 0
    /\ pixels = BlankRaster
    /\ presented = BlankRaster
    /\ quit = FALSE
    /\ elapsed = 0
    /\ wheelsLeft = 0
    /\ preciseRenders = 0
    /\ evReal \in EvalGrid
    /\ evImag \in EvalGrid
    /\ evMaxIter \in EvalBudgets
    /\ evResult = -1

Evaluate ==
    /\ pc = "eval"
    /\ evResult' = calculateMandelbrot(evReal, evImag, evMaxIter)
    /\ pc' = "evaluated"
    /\ UNCHANGED <<view, prev, MAX_ITERATIONS, NUM_THREADS, flags, caller, renderVars,
                   presented, quit, elapsed, wheelsLeft, preciseRenders,
                   evReal, evImag, evMaxIter, bootVars, audioVars, synth>>

NextEval == Evaluate

SpecEval == InitEval /\ [][NextEval]_vars

\* ------------------------------------------------------- clicks and audio
\* 2man.cpp:68, 82: duration = 1.0, sampleCount = SAMPLE_RATE * duration
DURATION == 1
sampleCount == SAMPLE_RATE * DURATION

\* 2man.cpp:71-75, in Hz (fixed point); the budget compared with and mapped
\* on is the global MAX_ITERATIONS
PrimaryFreq(iterations, maxIter) ==
    IF iterations >= maxIter
    THEN 110 * SCALE
    ELSE mapValue(iterations, 0, maxIter, 220 * SCALE, 880 * SCALE)

\* the buffer createMandelbrotSound returns for click number id: sampleCount
\* samples, each tagged with the click it was synthesized for
SoundBuffer(id) == [i \in 1 .. sampleCount |-> id]

\* faulty variant: the queue is not cleared
ClearQueuedAudioKeeps(queue) == queue
\* 2man.cpp:304 SDL_ClearQueuedAudio
ClearQueuedAudio(queue) == <<>>
\* 2man.cpp:305 SDL_QueueAudio
QueueAudio(queue, buffer) == queue \o buffer

\* faulty variant: the click is evaluated with the budget of a fast pass
ClickBudgetFast == MAX_ITERATIONS \div 4
\* 2man.cpp:299, the budget passed to calculateMandelbrot
ClickBudget == MAX_ITERATIONS

\* faulty variant: the click marks the image for re-rendering
ClickHandlerMarksUpdate(mouseX, mouseY) ==
    /\ pc = "poll"
    /\ clickCount < MaxClicks
    /\ LET real == mapValue(mouseX, 0, SCREEN_WIDTH, xMinOf(view), xMaxOf(view))
           imag == mapValue(mouseY, 0, SCREEN_HEIGHT, yMinOf(view), yMaxOf(view))
           iterations == IF NonFinite(view) THEN calculateMandelbrotNaN(ClickBudget)
                         ELSE calculateMandelbrot(real, imag, ClickBudget)
           soundBuffer == SoundBuffer(clickCount + 1)
       IN  /\ tone' = [click |-> clickCount + 1, iterations |-> iterations,
                       budget |-> MAX_ITERATIONS, real |-> real, imag |-> imag,
                       finite |-> ~NonFinite(view),
                       primaryFreq |-> PrimaryFreq(iterations, MAX_ITERATIONS),
                       sampleCount |-> Len(soundBuffer),
                       dropped |-> Len(audioQueue)]
           /\ audioQueue' = QueueAudio(ClearQueuedAudio(audioQueue), soundBuffer)
    /\ audioPaused' = FALSE
    /\ clickCount' = clickCount + 1
    /\ needsUpdate' = TRUE
    /\ isHighQuality' = FALSE
    /\ UNCHANGED <<view, prev, MAX_ITERATIONS, NUM_THREADS, isRenderingHighQuality, pc,
                   caller, renderVars, presented, quit, elapsed, wheelsLeft,
                   preciseRenders, evalVars, bootVars, synth>>
\* 2man.cpp:291-311: SDL_MOUSEBUTTONDOWN with the left button at (mouseX, mouseY)
ClickHandler(mouseX, mouseY) ==
    /\ pc = "poll"
    /\ clickCount < MaxClicks
    /\ LET real == mapValue(mouseX, 0, SCREEN_WIDTH, xMinOf(view), xMaxOf(view))
           imag == mapValue(mouseY, 0, SCREEN_HEIGHT, yMinOf(view), yMaxOf(view))
           iterations == IF NonFinite(view) THEN calculateMandelbrotNaN(ClickBudget)
                         ELSE calculateMandelbrot(real, imag, ClickBudget)
           soundBuffer == SoundBuffer(clickCount + 1)
       IN  /\ tone' = [click |-> clickCount + 1, iterations |-> iterations,
                       budget |-> MAX_ITERATIONS, real |-> real, imag |-> imag,
                       finite |-> ~NonFinite(view),
                       primaryFreq |-> PrimaryFreq(iterations, MAX_ITERATIONS),
                       sampleCount |-> Len(soundBuffer),
                       dropped |-> Len(audioQueue)]
           /\ audioQueue' = QueueAudio(ClearQueuedAudio(audioQueue), soundBuffer)
    /\ audioPaused' = FALSE
    /\ clickCount' = clickCount + 1
    /\ UNCHANGED <<view, prev, MAX_ITERATIONS, NUM_THREADS, flags, pc, caller, renderVars,
                   presented, quit, elapsed, wheelsLeft, preciseRenders, evalVars,
                   bootVars, synth>>

ClickEvent == \E m \in MousePositions : ClickHandler(m[1], m[2])

\* the audio thread of SDL takes up to AUDIO_BUFFER_SIZE samples off the queue
Playback ==
    /\ ~audioPaused
    /\ audioQueue # <<>>
    /\ audioQueue' = IF Len(audioQueue) <= AUDIO_BUFFER_SIZE THEN <<>>
                     ELSE SubSeq(audioQueue, AUDIO_BUFFER_SIZE + 1, Len(audioQueue))
    /\ UNCHANGED <<view, prev, MAX_ITERATIONS, NUM_THREADS, flags, pc, caller, renderVars,
                   presented, quit, elapsed, wheelsLeft, preciseRenders, evalVars,
                   bootVars, audioPaused, clickCount, tone, synth>>

\* the viewport after one wheel-up with the cursor on pixel (571, 300) of the
\* 800 x 600 window, the pixel next to the origin of the plane
ORIGIN_VIEW ==
    [n |-> 1,
     cx |-> mapValue(571, 0, 800, xMinOf(INITIAL_VIEW), xMaxOf(INITIAL_VIEW)),
     cy |-> mapValue(300, 0, 600, yMinOf(INITIAL_VIEW), yMaxOf(INITIAL_VIEW)),
     zero |-> FALSE, nan |-> FALSE]

ClickViews == {INITIAL_VIEW, ORIGIN_VIEW}

\* the event loop at 2man.cpp:287 with the fast render of the viewport shown
InitClick ==
    /\ NoEval
    /\ Booted
    /\ NoAudio
    /\ NoSynth
    /\ view \in ClickViews
    /\ prev = view
    /\ MAX_ITERATIONS \in updateIterations(view)
    /\ needsUpdate = TRUE
    /\ isHighQuality = FALSE
    /\ isRenderingHighQuality = FALSE
    /\ hardwareConcurrency = 1
    /\ NUM_THREADS = NumThreadsFor(hardwareConcurrency)
    /\ pc = "poll"
    /\ caller = "wheel"
    /\ highQuality = FALSE
    /\ localMaxIterations = LocalBudget(FALSE, MAX_ITERATIONS)
    /\ threads = <<>>
    /\ spawnI = 0
    /\ joinI = 0
    /\ pixels = renderMandelbrotSection(BlankRaster, 0, SCREEN_HEIGHT, view,
                                        localMaxIterations)
    /\ presented = pixels
    /\ quit = FALSE
    /\ elapsed = 0
    /\ wheelsLeft = 1
    /\ preciseRenders = 0

NextClick ==
    \/ ClickEvent
    \/ Playback
    \/ WheelEvent
    \/ Render
    \/ ReturnToWheel
    \/ ReturnToLoop
    \/ NoEvent
    \/ CheckPrecise
    \/ Delay

SpecClick == InitClick /\ [][NextClick]_vars

\* ------------------------------------------- createMandelbrotSound, by sample
\* 2man.cpp:85 time = i / SAMPLE_RATE, in fixed point
TimeOf(i) == (i * SCALE) \div SAMPLE_RATE

\* 2man.cpp:87-90
attackTime == SCALE \div 20
decayTime == SCALE \div 10
sustainLevel == (7 * SCALE) \div 10
releaseTime == (3 * SCALE) \div 10

\* 2man.cpp:99-100, the release segment
Release(time) ==
    Mul(sustainLevel, SCALE - (((time - (DURATION * SCALE - releaseTime)) * SCALE)
                                  \div releaseTime))

\* 2man.cpp:92-100
Envelope(time) ==
    IF time < attackTime
    THEN (time * SCALE) \div attackTime
    ELSE IF time < attackTime + decayTime
    THEN SCALE - Mul(SCALE - sustainLevel, ((time - attackTime) * SCALE) \div decayTime)
    ELSE IF time < DURATION * SCALE - releaseTime
    THEN sustainLevel
    ELSE Release(time)

\* sin of a finite argument: some value in [-1, 1]
SinValues == {-SCALE, 0, SCALE}

\* 2man.cpp:102-105, the weights 0.5, 0.25, 0.15, 0.1 on four sine values
WeightedSum(s1, s2, s3, s4) ==
    Mul(SCALE \div 2, s1) + Mul(SCALE \div 4, s2)
        + Mul((15 * SCALE) \div 100, s3) + Mul(SCALE \div 10, s4)

SINT16_MAX == 32767
SINT16_MIN == -32768

\* 2man.cpp:108 static_cast<Sint16>(sample * 32767); of a NaN it is undefined
\* (x86-64 and AArch64 builds store 0)
CastToSint16(scaled, isNaN) ==
    IF isNaN \/ scaled > SINT16_MAX \/ scaled < SINT16_MIN
    THEN {SINT16_MIN, 0, SINT16_MAX}
    ELSE {scaled}

\* iteration counts passed in: an escaping point, a point inside
SoundCounts == {1, MIN_ITERATIONS}

\* createMandelbrotSound called from the program as it starts
InitSound ==
    /\ InitProgram
    /\ NoEval
    /\ Booted
    /\ NoAudio
    /\ hardwareConcurrency = 1
    /\ NUM_THREADS = NumThreadsFor(hardwareConcurrency)
    /\ wheelsLeft = 0
    /\ synth \in [iterations : SoundCounts, finite : BOOLEAN, i : {0}, envelope : {0},
                  sum : {0}, sumNaN : {FALSE}, sample : {0}]

\* 2man.cpp:84-109: one turn of the sample loop; the frequencies of the
\* second and third partial are NaN when the coordinates are
SynthesizeSample ==
    /\ pc = "start"
    /\ synth.i < sampleCount
    /\ \E s1 \in SinValues, s2 \in SinValues, s3 \in SinValues, s4 \in SinValues :
          LET envelope == Envelope(TimeOf(synth.i))
              sum == WeightedSum(s1, s2, s3, s4)
              scaled == (Mul(sum, envelope) * SINT16_MAX) \div SCALE
          IN  \E sample \in CastToSint16(scaled, ~synth.finite) :
                  synth' = [synth EXCEPT !.i = synth.i + 1,
                                         !.envelope = envelope,
                                         !.sum = IF synth.finite THEN sum ELSE 0,
                                         !.sumNaN = ~synth.finite,
                                         !.sample = sample]
    /\ UNCHANGED <<view, prev, MAX_ITERATIONS, NUM_THREADS, flags, pc, caller, renderVars,
                   presented, quit, elapsed, wheelsLeft, preciseRenders, evalVars,
                   bootVars, audioVars>>

\* 2man.cpp:111: the buffer is returned
ReturnBuffer ==
    /\ pc = "start"
    /\ synth.i = sampleCount
    /\ pc' = "synthesized"
    /\ UNCHANGED <<view, prev, MAX_ITERATIONS, NUM_THREADS, flags, caller, renderVars,
                   presented, quit, elapsed, wheelsLeft, preciseRenders, evalVars,
                   bootVars, audioVars, synth>>

NextSound == SynthesizeSample \/ ReturnBuffer

SpecSound == InitSound /\ [][NextSound]_vars

\* ------------------------------------------------------------- start-up
\* 2man.cpp:230-274: one initialisation call whose failure is tested: on
\* failure main reports it and returns 1
InitStep(at, next) ==
    /\ pc = at
    /\ \E ok \in BOOLEAN :
          IF ok
          THEN pc' = next /\ exitStatus' = exitStatus
          ELSE pc' = "exit" /\ exitStatus' = 1
    /\ UNCHANGED <<view, prev, MAX_ITERATIONS, NUM_THREADS, flags, caller, renderVars,
                   presented, quit, elapsed, wheelsLeft, preciseRenders, evalVars,
                   hardwareConcurrency, texture, audioVars, synth>>

\* 2man.cpp:231-234
SdlInit == InitStep("init", "window")
\* 2man.cpp:237-243
CreateWindow == InitStep("window", "renderer")
\* 2man.cpp:246-252
CreateRenderer == InitStep("renderer", "audio")
\* 2man.cpp:254-270
OpenAudioDevice == InitStep("audio", "texture")

\* 2man.cpp:273-274: SDL_CreateTexture; the result is not tested
CreateTexture ==
    /\ pc = "texture"
    /\ \E t \in {"ok", "null"} : texture' = t
    /\ pc' = "start"
    /\ UNCHANGED <<view, prev, MAX_ITERATIONS, NUM_THREADS, flags, caller, renderVars,
                   presented, quit, elapsed, wheelsLeft, preciseRenders, evalVars,
                   hardwareConcurrency, exitStatus, audioVars, synth>>

\* 2man.cpp:357-364: the loop has ended; clean up and return 0
Cleanup ==
    /\ pc = "exit"
    /\ exitStatus = -1
    /\ exitStatus' = 0
    /\ UNCHANGED <<view, prev, MAX_ITERATIONS, NUM_THREADS, flags, pc, caller, renderVars,
                   presented, quit, elapsed, wheelsLeft, preciseRenders, evalVars,
                   hardwareConcurrency, texture, audioVars, synth>>

\* main entered (2man.cpp:229), nothing initialised yet
InitBoot ==
    /\ InitGlobals
    /\ NoEval
    /\ NoAudio
    /\ NoSynth
    /\ pc = "init"
    /\ exitStatus = -1
    /\ texture = "none"
    /\ hardwareConcurrency \in 0 .. MaxHardware
    /\ NUM_THREADS = NumThreadsFor(hardwareConcurrency)
    /\ wheelsLeft = 0

NextBoot ==
    \/ SdlInit
    \/ CreateWindow
    \/ CreateRenderer
    \/ OpenAudioDevice
    \/ CreateTexture
    \/ StartRender
    \/ Render
    \/ ReturnToStart
    \/ ReturnToLoop
    \/ QuitEvent
    \/ NoEvent
    \/ CheckPrecise
    \/ Delay
    \/ Cleanup

\* the program from the entry of main, without wheel events
SpecBoot == InitBoot /\ [][NextBoot]_vars

\* ------------------------------------------------------------------ claims
StripsOf(y) == { k \in 1 .. Len(threads) : threads[k].startY <= y /\ y < threads[k].endY }
InPass == pc \in {"spawn", "join", "present"}
AllSpawned == pc \in {"join", "present"}
NoneRunning == \A k \in 1 .. Len(threads) : threads[k].status # "running"

\* C1: once the workers of a pass are spawned there is one per NUM_THREADS,
\* every raster row lies in the row range of exactly one of them, every
\* worker stays inside its range, and when the pass is presented no row is
\* left unwritten.
C1_StripsPartitionRows ==
    /\ AllSpawned =>
          /\ Len(threads) = NUM_THREADS
          /\ \A y \in Rows : Cardinality(StripsOf(y)) = 1
    /\ InPass =>
          \A k \in 1 .. Len(threads) :
              /\ 0 <= threads[k].startY
              /\ threads[k].startY <= threads[k].y
              /\ threads[k].y <= threads[k].endY
              /\ threads[k].endY <= SCREEN_HEIGHT
    /\ pc = "present" => \A y \in Rows : pixels[y] # UNWRITTEN

\* C1 witness: a pass ready to present whose worker count does not divide
\* the height (remainder rows, or more workers than rows)
C1_Witness ==
    /\ pc = "present"
    /\ NUM_THREADS > 1
    /\ SCREEN_HEIGHT % NUM_THREADS # 0
    /\ \A y \in Rows : Cardinality(StripsOf(y)) = 1

\* C2: the raster the joined workers leave equals the raster one worker
\* renders over rows [0, SCREEN_HEIGHT) with the same bounds and budget.
C2_ParallelEqualsSingleStrip ==
    pc = "present" =>
        pixels = renderMandelbrotSection(BlankRaster, 0, SCREEN_HEIGHT, view,
                                         localMaxIterations)

\* C2 witness: a finished pass of at least two workers with rows to fill
C2_Witness ==
    /\ pc = "present"
    /\ Cardinality({ k \in 1 .. Len(threads) : threads[k].startY < threads[k].endY }) >= 2
    /\ pixels = renderMandelbrotSection(BlankRaster, 0, SCREEN_HEIGHT, view,
                                        localMaxIterations)

\* C3: outside the spawn and join loops of renderMandelbrot no worker is
\* running: the raster is presented, and the call has returned, only after
\* every worker of the pass has ended.
C3_JoinBeforePresent ==
    pc \notin {"spawn", "join"} => NoneRunning

\* C3 witness: a pass of several workers about to present, all ended
C3_Witness ==
    /\ pc = "present"
    /\ Len(threads) >= 2
    /\ \A k \in 1 .. Len(threads) : threads[k].status = "done"

\* C4: the render call of a wheel handler runs with needsUpdate set and
\* isHighQuality clear, is not skipped by the guard, and when it returns to
\* the handler the presented raster is the one of the new bounds at a
\* quarter of the recomputed budget.
C4_WheelFastRender ==
    /\ (caller = "wheel" /\ pc \in {"guard", "spawn", "join", "present", "ret"}) =>
          /\ needsUpdate /\ ~isHighQuality /\ ~highQuality
          /\ MAX_ITERATIONS \in updateIterations(view)
    /\ (caller = "wheel" /\ pc = "guard") => ~SkipGuard
    /\ (caller = "wheel" /\ pc \in {"spawn", "join", "present", "ret"}) =>
          /\ localMaxIterations = MAX_ITERATIONS \div 4
          /\ prev = view
    /\ (caller = "wheel" /\ pc = "ret") =>
          presented = renderMandelbrotSection(BlankRaster, 0, SCREEN_HEIGHT, view,
                                              MAX_ITERATIONS \div 4)

\* C4 witness: back in the wheel handler after a zoom that raised the budget
C4_Witness ==
    /\ caller = "wheel" /\ pc = "ret"
    /\ MAX_ITERATIONS > MIN_ITERATIONS
    /\ localMaxIterations = MAX_ITERATIONS \div 4
    /\ presented = pixels

\* C5: between two wheel events at most one precise pass starts; a precise
\* pass uses the full budget; and once the main loop has read the clock more
\* than RENDER_DELAY after the last fast render, that one precise pass has
\* run and its raster is the one shown.
C5_OnePreciseRender ==
    /\ preciseRenders <= 1
    /\ (caller = "precise" /\ pc \in {"spawn", "join", "present", "ret"}) =>
          /\ preciseRenders = 1
          /\ localMaxIterations = MAX_ITERATIONS
    /\ (pc = "delay" /\ elapsed > RENDER_DELAY) =>
          /\ preciseRenders = 1
          /\ presented = renderMandelbrotSection(BlankRaster, 0, SCREEN_HEIGHT, view,
                                                 MAX_ITERATIONS)

\* C5 witness: after a wheel event and the debounce interval, the precise
\* pass has run once
C5_Witness ==
    /\ pc = "delay"
    /\ elapsed > RENDER_DELAY
    /\ wheelsLeft < MaxWheel
    /\ preciseRenders = 1
    /\ caller = "precise"

\* C6: a precise renderMandelbrot call that ran a pass returns with
\* needsUpdate = false, isHighQuality = true, isRenderingHighQuality = false.
C6_IdleAfterPrecise ==
    (pc \in {"ret", "returned"} /\ highQuality /\ Len(threads) > 0) =>
        flags = <<FALSE, TRUE, FALSE>>

\* C6 witness: a precise call that rendered has returned
C6_Witness ==
    /\ pc = "returned"
    /\ highQuality
    /\ Len(threads) = NUM_THREADS
    /\ flags = <<FALSE, TRUE, FALSE>>

\* C7: a precise call entered with needsUpdate false and the bounds equal to
\* the last-rendered bounds returns in one step and changes nothing: no
\* worker, no presentation, bounds, budget and flags as they were.
C7_SkipIsNoOp ==
    [][(pc = "guard" /\ highQuality /\ ~needsUpdate /\ prev = view) =>
         /\ pc' = "ret"
         /\ UNCHANGED <<view, prev, MAX_ITERATIONS, flags, threads, pixels, presented,
                        localMaxIterations>>]_vars

\* C7 witness: a skipped precise call: returned with no worker spawned
C7_Witness ==
    /\ pc = "ret"
    /\ caller = "call"
    /\ highQuality /\ ~needsUpdate /\ prev = view
    /\ threads = <<>>
    /\ presented = BlankRaster

\* 1.25^26 = 330.8.. < 400 <= 413.5.. = 1.25^27
RatioAtLeast400(n) == n >= 27

\* C8: MAX_ITERATIONS lies in [100, 2000], is 100 at the reference width or
\* wider, and is 2000 at every zoom ratio of 400 or more.
C8_BudgetClamped ==
    /\ MAX_ITERATIONS >= MIN_ITERATIONS
    /\ MAX_ITERATIONS <= CAP_ITERATIONS
    /\ view.n <= 0 => MAX_ITERATIONS = MIN_ITERATIONS
    /\ RatioAtLeast400(view.n) => MAX_ITERATIONS = CAP_ITERATIONS

Evaluated == pc = "evaluated"
OutsideRadiusTwo == Mul(evReal, evReal) + Mul(evImag, evImag) >= ESCAPE

\* C9 as stated: a point with real^2 + imag^2 >= 4 evaluates to 0.
C9_ImmediateEscapeReturnsZero ==
    (Evaluated /\ OutsideRadiusTwo) => evResult = 0

\* C9: a point with real^2 + imag^2 >= 4 evaluates to 1 for every positive
\* budget: the first turn of the loop always runs, the second never.
C9_ImmediateEscapeReturnsOne ==
    (Evaluated /\ OutsideRadiusTwo) => evResult = 1

\* C9 witness: such a point evaluated with a budget above 1
C9_Witness ==
    /\ Evaluated
    /\ OutsideRadiusTwo
    /\ evMaxIter > 1
    /\ evResult = 1

\* index of the first iterate z_j, 1 <= j <= k, with |z_j|^2 >= 4; 0 if none
RECURSIVE FirstEscape(_, _, _, _, _, _)
FirstEscape(x, y, j, k, real, imag) ==
    IF j > k THEN 0
    ELSE LET ny == Mul(2 * x, y) + imag
             nx == Mul(x, x) - Mul(y, y) + real
         IN  IF Mul(nx, nx) + Mul(ny, ny) >= ESCAPE THEN j
             ELSE FirstEscape(nx, ny, j + 1, k, real, imag)

\* C10: the result lies in [0, maxIter] and equals maxIter exactly when none
\* of the first maxIter iterates reached the escape threshold.
C10_MaxIterIffBounded ==
    Evaluated =>
        /\ evResult \in 0 .. evMaxIter
        /\ (evResult = evMaxIter) <=> (FirstEscape(0, 0, 1, evMaxIter, evReal, evImag) = 0)

\* C11: the points (0, 0) and (-1, 0) evaluate to exactly the budget, for
\* every budget tried.
C11_BoundedPointsReturnBudget ==
    (Evaluated /\ evImag = 0 /\ evReal \in {0, -SCALE}) => evResult = evMaxIter

\* C11 witness: (-1, 0) evaluated with the budget of a precise pass
C11_Witness ==
    /\ Evaluated
    /\ evReal = -SCALE /\ evImag = 0
    /\ evMaxIter = MIN_ITERATIONS
    /\ evResult = evMaxIter

\* C12: the queue holds samples of at most one click, the most recent one:
\* never more than one buffer, never samples of an earlier click.
C12_LastClickWins ==
    /\ Len(audioQueue) <= sampleCount
    /\ \A i \in 1 .. Len(audioQueue) : audioQueue[i] = clickCount

\* C12 witness: a second click arrived while samples of the first were still
\* queued, and the device has started on the second buffer
C12_Witness ==
    /\ clickCount >= 2
    /\ tone.dropped > 0
    /\ audioQueue # <<>>
    /\ Len(audioQueue) < sampleCount
    /\ \A i \in 1 .. Len(audioQueue) : audioQueue[i] = clickCount

\* C13: the primary frequency of the last tone is 110 Hz when its iteration
\* count equals the budget and otherwise the linear map of the count from
\* [0, budget] to [220, 880] Hz; the count is the evaluation of the clicked
\* point with that budget, and the budget is MAX_ITERATIONS as it is when the
\* click is handled.
ToneMatchesBudget ==
    clickCount > 0 =>
        /\ tone.iterations = calculateMandelbrot(tone.real, tone.imag, tone.budget)
        /\ 0 <= tone.iterations /\ tone.iterations <= tone.budget
        /\ tone.primaryFreq =
              IF tone.iterations = tone.budget
              THEN 110 * SCALE
              ELSE (220 * SCALE) + Mul(660 * SCALE,
                                       (tone.iterations * SCALE) \div tone.budget)
        /\ \/ tone.primaryFreq = 110 * SCALE
           \/ (220 * SCALE <= tone.primaryFreq /\ tone.primaryFreq <= 880 * SCALE)

C13_PrimaryFrequency ==
    /\ []ToneMatchesBudget
    /\ [][clickCount' # clickCount => tone'.budget = MAX_ITERATIONS]_vars

\* C13 witness: after a zoom that raised the budget, a click inside the set
\* (110 Hz)
C13_Witness ==
    /\ clickCount > 0
    /\ tone.budget > MIN_ITERATIONS
    /\ tone.iterations = tone.budget
    /\ tone.primaryFreq = 110 * SCALE

\* C14: the buffer has SAMPLE_RATE * duration samples; for every sample the
\* envelope is in [0, 1], the weighted sum of the partials is a number in
\* [-1, 1], and the value stored is in [-32768, 32767].
C14_SamplesInRange ==
    /\ synth.i <= sampleCount
    /\ pc = "synthesized" => synth.i = SAMPLE_RATE * DURATION
    /\ 0 <= synth.envelope /\ synth.envelope <= SCALE
    /\ ~synth.sumNaN
    /\ -SCALE <= synth.sum /\ synth.sum <= SCALE
    /\ SINT16_MIN <= synth.sample /\ synth.sample <= SINT16_MAX

\* C15: after any sequence of wheel events the viewport bounds are ordered:
\* xMin < xMax and yMin < yMax.
C15_ViewportOrdered ==
    /\ ~view.nan
    /\ xMinOf(view) < xMaxOf(view)
    /\ yMinOf(view) < yMaxOf(view)

\* C16: every initialisation failure at start-up (SDL, window, renderer,
\* audio device, texture) is fatal: main returns non-zero and never enters
\* the event loop.
C16_InitFailuresFatal ==
    /\ exitStatus = 1 => pc = "exit"
    /\ texture = "null" => (pc = "exit" /\ exitStatus = 1)

\* C17 as stated: the number of workers equals the hardware parallelism and
\* is never less than 4.
C17_AtLeastFour ==
    /\ NUM_THREADS >= 4
    /\ hardwareConcurrency >= 4 => NUM_THREADS = hardwareConcurrency
    /\ AllSpawned => Len(threads) >= 4

\* C17: the number of workers of a render pass is the value the
\* hardware-parallelism query reports when that is positive, and 4 when the
\* query reports 0.
C17_WorkersMatchHardware ==
    /\ hardwareConcurrency > 0 => NUM_THREADS = hardwareConcurrency
    /\ hardwareConcurrency = 0 => NUM_THREADS = 4
    /\ AllSpawned => Len(threads) = NUM_THREADS
    /\ InPass => Len(threads) <= NUM_THREADS

C17_Witness ==
    /\ hardwareConcurrency \in 1 .. 3
    /\ pc = "join"
    /\ Len(threads) = hardwareConcurrency
    /\ preciseRenders > 0

\* C18: a precise render starts only when the tick counter is more than
\* RENDER_DELAY past the completion of the most recent zoom-triggered fast
\* render; while the counter is within the window no precise pass has run
\* since the last wheel event.
C18_DebounceSafety ==
    /\ [](elapsed <= RENDER_DELAY => preciseRenders = 0)
    /\ [][(~isRenderingHighQuality /\ isRenderingHighQuality') =>
             (elapsed' > RENDER_DELAY /\ caller' = "precise")]_vars

\* C18 witness: two wheel events, the second within the window of the first,
\* then a precise pass once the window has passed
C18_Witness ==
    /\ wheelsLeft = 0
    /\ view.n # 0
    /\ caller = "precise"
    /\ pc = "join"
    /\ elapsed > RENDER_DELAY
    /\ preciseRenders = 1

Idle == ~needsUpdate /\ isHighQuality /\ ~isRenderingHighQuality

\* C19: once the wheel events have stopped, with the tick counter advancing
\* and the program not asked to quit, the state becomes Idle (needsUpdate
\* false, isHighQuality true, isRenderingHighQuality false) and remains so;
\* only the handling of a wheel event ends Idle.
C19_EventuallyIdle ==
    /\ ([]~quit) => <>[]Idle
    /\ [][(Idle /\ ~Idle') => (wheelsLeft' = wheelsLeft - 1 /\ caller' = "wheel")]_vars

\* C19 witness: Idle after the last wheel event, past a fast and a precise
\* pass of the zoomed viewport
C19_Witness ==
    /\ Idle
    /\ wheelsLeft = 0
    /\ view.n # 0
    /\ ~quit
    /\ pc = "poll"
    /\ preciseRenders = 1

SomeRunning == \E k \in 1 .. Len(threads) : threads[k].status = "running"

\* C20: while a worker of a pass runs, the bounds and the budget are not
\* written and no wheel event is handled; every worker of the pass holds the
\* bounds and the budget the pass started with.
C20_StableSnapshot ==
    /\ [](\A k \in 1 .. Len(threads) :
            InPass => /\ threads[k].view = view
                      /\ threads[k].maxIterations = localMaxIterations
                      /\ threads[k].view = threads[1].view
                      /\ threads[k].maxIterations = threads[1].maxIterations)
    /\ [](SomeRunning => InPass)
    /\ [][(SomeRunning \/ InPass) =>
             UNCHANGED <<view, MAX_ITERATIONS, localMaxIterations, wheelsLeft>>]_vars

\* C20 witness: the second of two workers still runs in a precise pass of a
\* zoomed viewport, the first has ended
C20_Witness ==
    /\ pc = "join"
    /\ Len(threads) >= 2
    /\ threads[1].status = "done"
    /\ threads[2].status = "running"
    /\ highQuality
    /\ view.n # 0

LoopStates == {"poll", "check", "delay", "exit"}

\* C21: isRenderingHighQuality is never left true: a precise call from the
\* main loop is entered with needsUpdate true, is not skipped, and returns
\* with isRenderingHighQuality false; isRenderingHighQuality true with
\* needsUpdate false is unreachable.
C21_NeverLockedOut ==
    /\ isRenderingHighQuality => needsUpdate
    /\ pc \in LoopStates => ~isRenderingHighQuality
    /\ (caller = "precise" /\ pc = "guard") => (needsUpdate /\ ~SkipGuard)
    /\ (caller = "precise" /\ pc = "ret") => (~isRenderingHighQuality /\ preciseRenders > 0)

\* C21 witness: the precise call of the main loop has returned, after a
\* wheel event
C21_Witness ==
    /\ caller = "precise"
    /\ pc = "ret"
    /\ ~isRenderingHighQuality
    /\ view.n # 0
    /\ preciseRenders = 1

\* C22: between the steps of the main loop, needsUpdate is false exactly
\* when isHighQuality is true, and then the last pass was a precise one at
\* the full current budget, the raster shown is the one of the current
\* bounds at that budget, and the last-rendered bounds are the current ones.
C22_IdleImageIsPrecise ==
    /\ needsUpdate <=> ~isHighQuality
    /\ (pc \in LoopStates /\ ~needsUpdate) =>
          /\ prev = view
          /\ highQuality
          /\ localMaxIterations = MAX_ITERATIONS
          /\ preciseRenders = 1
          /\ presented = renderMandelbrotSection(BlankRaster, 0, SCREEN_HEIGHT, view,
                                                 MAX_ITERATIONS)

\* C22 witness: the precise image of a zoomed viewport is shown while the
\* main loop polls, at a budget above the initial one
C22_Witness ==
    /\ pc = "poll"
    /\ ~needsUpdate
    /\ view.n # 0
    /\ MAX_ITERATIONS > MIN_ITERATIONS
    /\ wheelsLeft = 0
    /\ presented = pixels

\* C23: the handling of a left click leaves the bounds, the last-rendered
\* bounds, the budget, the three flags and the debounce clock as they were,
\* starts no render pass and shows no raster; the audio queue is what it
\* changes.
C23_ClickLeavesRenderState ==
    [][clickCount' # clickCount =>
         /\ UNCHANGED <<view, prev, MAX_ITERATIONS, flags, elapsed, pc, caller,
                        renderVars, presented, preciseRenders, quit>>
         /\ audioQueue' = SoundBuffer(clickCount')
         /\ pc' = "poll"]_vars

\* C23 witness: a click handled while the precise image of a zoomed viewport
\* is shown; the state is still Idle
C23_Witness ==
    /\ clickCount > 0
    /\ tone.click = clickCount
    /\ tone.dropped = 0
    /\ Len(audioQueue) = sampleCount
    /\ pc = "poll"
    /\ Idle
    /\ view.n # 0
    /\ preciseRenders = 1

====
